---- MODULE Spec2Model ----
(***************************************************************************)
(* The Flutterwave payment webhook of api/webhooks/flutterwave.js.         *)
(*                                                                         *)
(* One invocation of `handler` runs in three synchronous segments, cut at  *)
(* its two awaits: from entry to the outbound verification call (lines     *)
(* 63-107), from the verification's answer to the Firestore set() (lines   *)
(* 107-187), and from the write's outcome to the response (lines 187-213). *)
(* Invocations share no in-process state; they share the database and the  *)
(* wall clock.                                                             *)
(*                                                                         *)
(* Spec      one invocation, inputs drawn from every request shape and     *)
(*           every verification answer of the bounded domains.             *)
(* SpecConc  two concurrent invocations that are deliveries of the same    *)
(*           successful payment.                                           *)
(***************************************************************************)
EXTENDS Integers, Sequences, FiniteSets, TLC

VARIABLES h, db, clock

vars == <<h, db, clock>>

(***************************************************************************)
(* Bounds.                                                                 *)
(***************************************************************************)
\* longest transaction reference, counted in atoms of RefAtoms
MaxRefLen == 5
\* last millisecond the wall clock reaches
MaxTime == 1

(***************************************************************************)
(* JavaScript values.  Objects, undefined and null are records tagged by   *)
(* `kind`; a string whose content matters is Str(<sequence of atoms>).     *)
(***************************************************************************)
Undefined == [kind |-> "undefined"]
Null == [kind |-> "null"]
Str(s) == [kind |-> "string", chars |-> s]
Error(msg) == [kind |-> "error", message |-> msg]

\* The atoms transaction references are built from.  "boost" stands for the
\* five characters b-o-o-s-t, "e" for any other character than "_".
RefAtoms == {"boost", "_", "e"}

RECURSIVE SeqsUpTo(_, _)
SeqsUpTo(S, n) ==
  IF n = 0 THEN {<<>>}
  ELSE LET P == SeqsUpTo(S, n - 1)
       IN  P \cup {Append(s, a) : s \in {p \in P : Len(p) = n - 1}, a \in S}

TxRefs == {Str(s) : s \in SeqsUpTo(RefAtoms, MaxRefLen)}

(***************************************************************************)
(* Pure functions of the source.                                           *)
(***************************************************************************)
\* String.prototype.split('_'): the segments between underscores, empty ones
\* included; a string without underscore is its own single segment.
RECURSIVE split(_)
split(s) ==
  IF \A k \in 1..Len(s) : s[k] # "_" THEN <<s>>
  ELSE LET k == CHOOSE k \in 1..Len(s) : s[k] = "_" /\ \A j \in 1..(k - 1) : s[j] # "_"
       IN  <<SubSeq(s, 1, k - 1)>> \o split(SubSeq(s, k + 1, Len(s)))

\* Faulty variant: two segments are taken to be enough.
parseTransactionRef_SecondGate(txRef) ==
  LET parts == split(txRef.chars)
  IN  IF Len(parts) >= 2 /\ parts[1] = <<"boost">> THEN Str(parts[2]) ELSE Null

\* parseTransactionRef (lines 53-60): parts[1] of a reference with at least
\* three segments whose first is 'boost', else null.
parseTransactionRef(txRef) ==
  LET parts == split(txRef.chars)
  IN  IF Len(parts) >= 3 /\ parts[1] = <<"boost">> THEN Str(parts[2]) ELSE Null

\* JavaScript's !v for the values eventId can take.
Falsy(v) == v = Null \/ v = Undefined \/ v = Str(<<>>)

\* JSON.stringify: undefined has no serialization (the call returns
\* undefined); every other value serializes to a text that determines it.
JSONstringify(v) == IF v = Undefined THEN Undefined ELSE [kind |-> "json", of |-> v]

\* crypto.createHmac('sha256', key).update(msg).digest('hex'): a digest that
\* determines its key and message.
Hmac(key, msg) == [kind |-> "hex", key |-> key, msg |-> msg]

\* process.env.FLUTTERWAVE_WEBHOOK_HASH, and a secret that is not it.
WebhookSecret == "FLUTTERWAVE_WEBHOOK_HASH"
OtherSecret == "not-the-secret"

\* generateAdCode (lines 43-50): 'AD' followed by 11 characters.
AdCode(c) == Str(<<"A", "D">> \o [k \in 1..11 |-> c])
\* The codes Math.random is taken to produce: one letter fill, one digit fill.
AdCodes == {AdCode("Q"), AdCode("7")}

\* Date.prototype.toISOString of the instant t (milliseconds).
toISOString(t) == [kind |-> "iso8601", ms |-> t]
SevenDays == 7 * 24 * 60 * 60 * 1000

(***************************************************************************)
(* Inputs.                                                                 *)
(***************************************************************************)
Events == {"charge.completed", "charge.failed", "undefined"}
Statuses == {"successful", "failed", "undefined"}

InboundData ==
  {Undefined} \cup
  [kind : {"object"}, id : {4242}, status : Statuses, tx_ref : {Undefined} \cup TxRefs]

Bodies ==
  {Undefined, Null} \cup [kind : {"object"}, event : Events, data : InboundData]

\* Values of the 'verif-hash' header a request with this body may carry: none,
\* the digest of the body under the shared secret, the digest of another body
\* under the shared secret, a digest under another secret.
Signatures(body) ==
  {Undefined, Hmac(OtherSecret, JSONstringify(Null))} \cup
  {Hmac(WebhookSecret, JSONstringify(b)) : b \in {body, Null} \ {Undefined}}

Requests ==
  UNION {[method : {"POST", "GET"}, body : {b}, signature : Signatures(b)] : b \in Bodies}

GoodRef == Str(<<"boost", "_", "e", "_", "e">>)
OtherRef == Str(<<"boost", "_", "boost", "_", "e">>)

\* The deliveries of one successful payment.
ReplayRequests ==
  {r \in Requests :
     /\ r.method = "POST"
     /\ r.body # Undefined
     /\ r.signature = Hmac(WebhookSecret, JSONstringify(r.body))
     /\ r.body.kind = "object"
     /\ r.body.event = "charge.completed"
     /\ r.body.data # Undefined
     /\ r.body.data.status = "successful"
     /\ r.body.data.tx_ref = GoodRef}

Customer == [kind |-> "object", email |-> "a@b.c", name |-> "A B"]

VerificationData(refs) ==
  {Undefined} \cup
  [kind : {"object"}, id : {4242}, status : {"successful", "failed"},
   amount : {5000, 100}, currency : {"NGN", "USD"}, tx_ref : refs,
   flw_ref : {"FLW-REF"}, payment_type : {"card"}, customer : {Undefined, Customer}]

\* What verifyFlutterwavePayment yields for a request: the fetch or the JSON
\* parse throws, the body parses to null, or it parses to an object.  The
\* provider answers with the reference it holds for the transaction id,
\* which the handler never compares with the inbound one.
Verifications(req) ==
  {Error("fetch failed"), Null} \cup
  [kind : {"object"}, status : {"success", "error"},
   data : VerificationData({GoodRef, OtherRef, req.body.data.tx_ref} \ {Undefined})]

ReplayVerifications(req) ==
  {v \in Verifications(req) :
     /\ v.kind = "object"
     /\ v.status = "success"
     /\ v.data # Undefined
     /\ v.data.status = "successful"
     /\ v.data.amount = 5000
     /\ v.data.currency = "NGN"
     /\ v.data.tx_ref = req.body.data.tx_ref
     /\ v.data.customer = Customer}

(***************************************************************************)
(* The handler.                                                            *)
(***************************************************************************)
\* One invocation before its request arrives.  responses, verifyCalls and
\* writeCalls record what the invocation has sent and called so far; thrown
\* is the exception raised in it; committed says its set() took effect.
Idle ==
  [pc |-> "idle", req |-> Undefined, verification |-> Undefined,
   eventId |-> Undefined, packageData |-> Undefined, responses |-> <<>>,
   verifyCalls |-> 0, writeCalls |-> 0, committed |-> FALSE, thrown |-> Undefined]

\* Faulty variant: an exception after the response makes the catch block
\* respond a second time.
Respond_ThenThrow(hr, status, body) ==
  [hr EXCEPT !.responses = @ \o <<[status |-> status, body |-> body],
                                  [status |-> 500,
                                   body |-> [error |-> "Internal server error",
                                            message |-> "after response"]]>>,
             !.pc = "done"]

\* return res.status(status).json(body): one response, and the handler ends.
Respond(hr, status, body) ==
  [hr EXCEPT !.responses = Append(@, [status |-> status, body |-> body]),
             !.pc = "done"]

\* Faulty variant: the catch block drops the error's message.
Catch_NoMessage(hr) ==
  Respond(hr, 500, [error |-> "Internal server error"])

\* The catch block (lines 207-213).
Catch(hr) ==
  Respond(hr, 500, [error |-> "Internal server error", message |-> hr.thrown.message])

\* An exception raised inside the try block (lines 69-206).
Throw(hr, msg) == Catch([hr EXCEPT !.thrown = Error(msg)])

\* Faulty variant: a request without the header is let through.
SignatureOk_HeaderOptional(req) ==
  \/ req.signature = Undefined
  \/ Hmac(WebhookSecret, JSONstringify(req.body)) = req.signature

\* Lines 76-83: hash === signature.
SignatureOk(req) ==
  Hmac(WebhookSecret, JSONstringify(req.body)) = req.signature

\* Faulty variant: only the top-level status is looked at.
VerificationOk_TopLevelOnly(v) == v.status = "success"

\* Line 109, once both operands can be read.
VerificationOk(v) == v.status = "success" /\ v.data.status = "successful"

\* Lines 63-107: from entry to the call of verifyFlutterwavePayment.
handlerEntry(hr0, req) ==
  LET hr == [hr0 EXCEPT !.req = req]
  IN  IF req.method # "POST"
        THEN Respond(hr, 405, [error |-> "Method not allowed"])
      ELSE IF JSONstringify(req.body) = Undefined
        THEN Throw(hr, "TypeError: the data argument must be a string")
      ELSE IF ~SignatureOk(req)
        THEN Respond(hr, 401, [error |-> "Invalid signature"])
      ELSE IF req.body = Null
        THEN Throw(hr, "TypeError: cannot destructure null")
      ELSE IF req.body.event # "charge.completed"
        THEN Respond(hr, 200, [message |-> "Event ignored"])
      ELSE IF req.body.data = Undefined
        THEN Throw(hr, "TypeError: cannot read properties of undefined (status)")
      ELSE IF req.body.data.status # "successful"
        THEN Respond(hr, 200, [message |-> "Event ignored"])
      ELSE [hr EXCEPT !.pc = "awaitVerify", !.verifyCalls = @ + 1]

\* Faulty variant: the currency is a fixed default, not the verified one.
packageData_DefaultCurrency(v, adCode, now, stamp) ==
  [packageId |-> [prefix |-> "ads_pkg_", ms |-> stamp],
   packageName |-> "Webhook Package",
   packageType |-> "webhook",
   status |-> "pending_upload",
   createdAt |-> toISOString(now),
   expiresAt |-> toISOString(now + SevenDays),
   totalAmountPaid |-> v.data.amount,
   paymentId |-> v.data.id,
   adCode |-> adCode,
   currency |-> "NGN",
   customerEmail |-> v.data.customer.email,
   customerName |-> v.data.customer.name,
   webhookProcessedAt |-> toISOString(now),
   flutterwaveData |-> [txRef |-> v.data.tx_ref, flwRef |-> v.data.flw_ref,
                        paymentType |-> v.data.payment_type],
   adTypes |-> <<"image">>,
   placements |-> <<"app_ads_footer">>,
   duration |-> 7,
   ads |-> [image |-> [contentType |-> Null, dataUrl |-> Null, websiteUrl |-> Null,
                       editsUsed |-> 0, totalEdits |-> 1, views |-> 0, clicks |-> 0,
                       uploaded |-> FALSE]],
   totalViews |-> 0,
   totalClicks |-> 0,
   viewsPerDay |-> <<>>]

\* Lines 130-182: now is `new Date()`, stamp is the later `Date.now()`.
packageData(v, adCode, now, stamp) ==
  [packageId |-> [prefix |-> "ads_pkg_", ms |-> stamp],
   packageName |-> "Webhook Package",
   packageType |-> "webhook",
   status |-> "pending_upload",
   createdAt |-> toISOString(now),
   expiresAt |-> toISOString(now + SevenDays),
   totalAmountPaid |-> v.data.amount,
   paymentId |-> v.data.id,
   adCode |-> adCode,
   currency |-> v.data.currency,
   customerEmail |-> v.data.customer.email,
   customerName |-> v.data.customer.name,
   webhookProcessedAt |-> toISOString(now),
   flutterwaveData |-> [txRef |-> v.data.tx_ref, flwRef |-> v.data.flw_ref,
                        paymentType |-> v.data.payment_type],
   adTypes |-> <<"image">>,
   placements |-> <<"app_ads_footer">>,
   duration |-> 7,
   ads |-> [image |-> [contentType |-> Null, dataUrl |-> Null, websiteUrl |-> Null,
                       editsUsed |-> 0, totalEdits |-> 1, views |-> 0, clicks |-> 0,
                       uploaded |-> FALSE]],
   totalViews |-> 0,
   totalClicks |-> 0,
   viewsPerDay |-> <<>>]

\* Lines 24-40 and 107-187: from the answer of verifyFlutterwavePayment to
\* the call of adPackagesRef.set.
handlerVerified(hr0, v, adCode, now, stamp) ==
  LET hr == [hr0 EXCEPT !.verification = v]
      txRef == hr.req.body.data.tx_ref
  IN  IF v.kind = "error"
        THEN Throw(hr, v.message)
      ELSE IF v = Null
        THEN Throw(hr, "TypeError: cannot read properties of null (status)")
      ELSE IF v.status # "success"
        THEN Respond(hr, 400, [error |-> "Payment verification failed"])
      ELSE IF v.data = Undefined
        THEN Throw(hr, "TypeError: cannot read properties of undefined (status)")
      ELSE IF ~VerificationOk(v)
        THEN Respond(hr, 400, [error |-> "Payment verification failed"])
      ELSE IF txRef = Undefined
        THEN Throw(hr, "TypeError: cannot read properties of undefined (split)")
      ELSE LET eventId == parseTransactionRef(txRef)
           IN  IF Falsy(eventId)
                 THEN Respond([hr EXCEPT !.eventId = eventId], 400,
                              [error |-> "Invalid transaction reference"])
               ELSE IF v.data.customer = Undefined
                 THEN Throw([hr EXCEPT !.eventId = eventId],
                            "TypeError: cannot read properties of undefined (email)")
               ELSE [hr EXCEPT !.eventId = eventId,
                               !.packageData = packageData(v, adCode, now, stamp),
                               !.pc = "awaitWrite",
                               !.writeCalls = @ + 1]

\* Line 185: the document the invocation writes.
adPackagesRef(hr) ==
  <<"physicalEvents", hr.eventId, "adsPackages", hr.packageData.packageId>>

\* Lines 196-205: the success response.
handlerWritten(hr) ==
  Respond(hr, 200,
          [success |-> TRUE,
           message |-> "Payment processed successfully",
           data |-> [eventId |-> hr.eventId,
                     packageId |-> hr.packageData.packageId,
                     adCode |-> hr.packageData.adCode,
                     amount |-> hr.verification.data.amount]])

(***************************************************************************)
(* Actions.                                                                *)
(***************************************************************************)
Invocations == DOMAIN h

\* The platform invokes handler(req, res).
Receive(i, req) ==
  /\ h[i].pc = "idle"
  /\ h' = [h EXCEPT ![i] = handlerEntry(@, req)]
  /\ UNCHANGED <<db, clock>>

\* The verification call settles; the handler runs on to the database write.
\* The two clock reads of lines 130 and 132 may fall in different
\* milliseconds.
VerifyReturns(i, v) ==
  /\ h[i].pc = "awaitVerify"
  /\ \E adCode \in AdCodes, stamp \in {clock, clock + 1} :
       /\ stamp <= MaxTime
       /\ h' = [h EXCEPT ![i] = handlerVerified(@, v, adCode, clock, stamp)]
       /\ clock' = stamp
  /\ UNCHANGED db

\* Firestore applies set(): the document is created, or replaces the one
\* already stored under the same path.
DbCommit(i) ==
  /\ h[i].pc = "awaitWrite"
  /\ db' = (adPackagesRef(h[i]) :> h[i].packageData) @@ db
  /\ h' = [h EXCEPT ![i].pc = "written", ![i].committed = TRUE]
  /\ UNCHANGED clock

\* The set() promise resolves.
WriteAck(i) ==
  /\ h[i].pc = "written"
  /\ h' = [h EXCEPT ![i] = handlerWritten(@)]
  /\ UNCHANGED <<db, clock>>

\* The set() promise rejects, the document not written.
WriteFails(i) ==
  /\ h[i].pc = "awaitWrite"
  /\ h' = [h EXCEPT ![i] = Throw(@, "firestore: write failed")]
  /\ UNCHANGED <<db, clock>>

\* The wall clock passes to the next millisecond.
Tick ==
  /\ clock < MaxTime
  /\ clock' = clock + 1
  /\ UNCHANGED <<h, db>>

\* The requests the platform can hand to invocation i, and those it hands
\* over when the provider delivers one successful payment again.
Arrivals(i) ==
  IF h[i].pc = "idle" THEN Requests ELSE {}

ReplayArrivals(i) ==
  IF h[i].pc = "idle" THEN ReplayRequests ELSE {}

\* The answers the verification call of invocation i can get, and those it
\* gets when the provider confirms the payment as delivered.
Answers(i) ==
  IF h[i].pc = "awaitVerify" THEN Verifications(h[i].req) ELSE {}

ReplayAnswers(i) ==
  IF h[i].pc = "awaitVerify" THEN ReplayVerifications(h[i].req) ELSE {}

Init ==
  /\ h = [i \in {1} |-> Idle]
  /\ db = <<>>
  /\ clock = 0

Next ==
  \/ \E i \in Invocations : \E req \in Arrivals(i) : Receive(i, req)
  \/ \E i \in Invocations : \E v \in Answers(i) : VerifyReturns(i, v)
  \/ \E i \in Invocations : DbCommit(i)
  \/ \E i \in Invocations : WriteAck(i)
  \/ \E i \in Invocations : WriteFails(i)
  \/ Tick

Spec == Init /\ [][Next]_vars

InitConc ==
  /\ h = [i \in {1, 2} |-> Idle]
  /\ db = <<>>
  /\ clock = 0

NextConc ==
  \/ \E i \in Invocations : \E req \in ReplayArrivals(i) : Receive(i, req)
  \/ \E i \in Invocations : \E v \in ReplayAnswers(i) : VerifyReturns(i, v)
  \/ \E i \in Invocations : DbCommit(i)
  \/ \E i \in Invocations : WriteAck(i)
  \/ \E i \in Invocations : WriteFails(i)
  \/ Tick

SpecConc == InitConc /\ [][NextConc]_vars

(***************************************************************************)
(* What the specification says of a request, a verification answer and a   *)
(* reference, stated on the inputs alone.                                  *)
(***************************************************************************)
\* The reference has at least three underscore-separated segments, the first
\* being 'boost'.
HasThreeSegments(s) ==
  /\ Len(s) >= 3
  /\ s[1] = "boost"
  /\ s[2] = "_"
  /\ \E k \in 3..Len(s) : s[k] = "_"

\* The text between the first and the second underscore.
SecondSegment(s) ==
  IF HasThreeSegments(s)
    THEN LET k == CHOOSE k \in 3..Len(s) : s[k] = "_" /\ \A j \in 3..(k - 1) : s[j] # "_"
         IN  SubSeq(s, 3, k - 1)
    ELSE <<>>

GateA(r) ==
  /\ r.body # Undefined
  /\ r.signature = Hmac(WebhookSecret, JSONstringify(r.body))

GateB(r) ==
  /\ r.body.kind = "object"
  /\ r.body.event = "charge.completed"
  /\ r.body.data # Undefined
  /\ r.body.data.status = "successful"

GateC(v) ==
  /\ v.kind = "object"
  /\ v.status = "success"
  /\ v.data # Undefined
  /\ v.data.status = "successful"

GateD(r) ==
  /\ r.body.data.tx_ref # Undefined
  /\ HasThreeSegments(r.body.data.tx_ref.chars)
  /\ SecondSegment(r.body.data.tx_ref.chars) # <<>>

Started(i) == h[i].pc # "idle"
Answered(i) == h[i].pc \notin {"idle", "awaitVerify"}
NoSideEffect(i) ==
  h[i].verifyCalls = 0 /\ h[i].writeCalls = 0 /\ ~h[i].committed /\ db = <<>>
NoWrite(i) == h[i].writeCalls = 0 /\ ~h[i].committed /\ db = <<>>
Sent(i, status, body) == h[i].responses = <<[status |-> status, body |-> body]>>

\* C1: a document is written by an invocation only if, in that invocation,
\* the request was a POST whose signature matched, the event was a successful
\* charge, the provider's answer confirmed it, and the reference yielded a
\* non-empty identifier; the database holds nothing no invocation committed.
C1_WriteOnlyAfterAllGates ==
  /\ \A i \in Invocations :
       (h[i].writeCalls > 0 \/ h[i].committed) =>
         /\ h[i].req.method = "POST"
         /\ GateA(h[i].req)
         /\ GateB(h[i].req)
         /\ GateC(h[i].verification)
         /\ GateD(h[i].req)
  /\ db # <<>> => \E i \in Invocations : h[i].committed

C1_Witness ==
  \E i \in Invocations : h[i].committed /\ db # <<>>

\* C2: two invocations that both wrote used different package ids, and two
\* documents are stored: neither write replaced the other's document.
C2_DistinctPackageIds ==
  \A i, j \in Invocations :
    (i # j /\ h[i].committed /\ h[j].committed) =>
      /\ h[i].packageData.packageId # h[j].packageData.packageId
      /\ Cardinality(DOMAIN db) = 2

\* C3: an invocation sends no response before it ends and exactly one when it
\* ends, and makes at most one verification call and one database write.
C3_OneResponseOneCallOneWrite ==
  \A i \in Invocations :
    /\ Len(h[i].responses) = (IF h[i].pc = "done" THEN 1 ELSE 0)
    /\ h[i].verifyCalls <= 1
    /\ h[i].writeCalls <= 1

C3_Witness ==
  \E i \in Invocations :
    /\ h[i].pc = "done"
    /\ h[i].verifyCalls = 1
    /\ h[i].writeCalls = 1
    /\ Len(h[i].responses) = 1
    /\ h[i].responses[1].status = 200

C5_NonSuccessIgnored ==
  \A i \in Invocations :
    (/\ Started(i)
     /\ h[i].req.method = "POST"
     /\ GateA(h[i].req)
     /\ h[i].req.body.kind = "object"
     /\ ~GateB(h[i].req)) =>
      /\ h[i].pc = "done"
      /\ Sent(i, 200, [message |-> "Event ignored"])
      /\ NoSideEffect(i)

\* C6: a verification answer whose status is not 'success' or whose
\* data.status is not 'successful', an answer without data included, is
\* answered 400 with no database write.
C6_FailedVerification400 ==
  \A i \in Invocations :
    (/\ Answered(i)
     /\ h[i].verification.kind = "object"
     /\ ~GateC(h[i].verification)) =>
      /\ h[i].pc = "done"
      /\ Sent(i, 400, [error |-> "Payment verification failed"])
      /\ NoWrite(i)

\* C7: once the payment is verified, a reference string without three
\* segments led by 'boost', or with an empty second segment, yields no
\* identifier, a 400 and no write; any other yields its second segment.
C7_ReferenceParsing ==
  \A i \in Invocations :
    (/\ Answered(i)
     /\ GateC(h[i].verification)
     /\ h[i].req.body.data.tx_ref # Undefined) =>
      IF GateD(h[i].req)
        THEN h[i].eventId = Str(SecondSegment(h[i].req.body.data.tx_ref.chars))
        ELSE /\ Falsy(h[i].eventId)
             /\ h[i].pc = "done"
             /\ Sent(i, 400, [error |-> "Invalid transaction reference"])
             /\ NoWrite(i)

C7_Witness ==
  \E i \in Invocations :
    /\ Answered(i)
    /\ GateC(h[i].verification)
    /\ h[i].req.body.data.tx_ref = Str(<<"boost", "_", "e", "e", "_">>)
    /\ h[i].eventId = Str(<<"e", "e">>)
    /\ h[i].pc = "awaitWrite"

\* The exceptions the inputs of invocation i force: hashing an absent body,
\* reading fields of a null body or of absent data, a failed or malformed
\* verification answer, a reference that is no string, an absent customer.
Raises(i) ==
  LET r == h[i].req
      v == h[i].verification
  IN  /\ Started(i)
      /\ r.method = "POST"
      /\ \/ r.body = Undefined
         \/ GateA(r) /\ r.body = Null
         \/ GateA(r) /\ r.body.kind = "object" /\ r.body.event = "charge.completed"
                     /\ r.body.data = Undefined
         \/ GateA(r) /\ GateB(r) /\ v.kind \in {"error", "null"}
         \/ GateA(r) /\ GateB(r) /\ v.kind = "object" /\ v.status = "success"
                     /\ v.data = Undefined
         \/ GateA(r) /\ GateB(r) /\ GateC(v) /\ r.body.data.tx_ref = Undefined
         \/ GateA(r) /\ GateB(r) /\ GateC(v) /\ GateD(r) /\ v.data.customer = Undefined

\* C8: an exception raised after the method gate ends the invocation with
\* exactly one response, a 500 carrying the error's message; raised before
\* the write was issued, it leaves the database unchanged.
C8_ExceptionsAnswered500 ==
  \A i \in Invocations :
    (h[i].thrown # Undefined \/ Raises(i)) =>
      /\ h[i].thrown # Undefined
      /\ h[i].pc = "done"
      /\ Sent(i, 500, [error |-> "Internal server error",
                       message |-> h[i].thrown.message])
      /\ h[i].writeCalls = 0 => (~h[i].committed /\ db = <<>>)

C8_Witness ==
  \E i \in Invocations :
    /\ h[i].verification = Error("fetch failed")
    /\ Sent(i, 500, [error |-> "Internal server error", message |-> "fetch failed"])
    /\ db = <<>>

\* C9: a committed write stored exactly one document, under the second
\* segment of the inbound reference and the package id, with status
\* 'pending_upload', the verified amount and currency and zeroed counters;
\* the success response is sent only after the commit and repeats the
\* document's event id, package id, ad code and amount.
C9_StoredDocumentAndResponse ==
  \A i \in Invocations :
    LET doc == h[i].packageData
        v == h[i].verification
        path == <<"physicalEvents",
                  Str(SecondSegment(h[i].req.body.data.tx_ref.chars)),
                  "adsPackages", doc.packageId>>
        rsp == h[i].responses[1]
    IN  /\ h[i].committed =>
             /\ DOMAIN db = {path}
             /\ db[path] = doc
             /\ doc.status = "pending_upload"
             /\ doc.totalAmountPaid = v.data.amount
             /\ doc.currency = v.data.currency
             /\ doc.totalViews = 0 /\ doc.totalClicks = 0
             /\ doc.ads.image.views = 0 /\ doc.ads.image.clicks = 0
             /\ doc.ads.image.editsUsed = 0
        /\ (h[i].pc = "done" /\ rsp.status = 200 /\ "success" \in DOMAIN rsp.body) =>
             /\ h[i].committed
             /\ rsp.body.data = [eventId |-> path[2], packageId |-> db[path].packageId,
                                 adCode |-> db[path].adCode,
                                 amount |-> db[path].totalAmountPaid]
        /\ (h[i].pc = "done" /\ h[i].committed /\ h[i].thrown = Undefined) =>
             rsp.status = 200 /\ "success" \in DOMAIN rsp.body

C9_Witness ==
  \E i \in Invocations :
    /\ h[i].pc = "done"
    /\ h[i].committed
    /\ h[i].responses[1].status = 200
    /\ h[i].verification.data.currency = "USD"
    /\ h[i].verification.data.amount = 5000
    /\ Cardinality(DOMAIN db) = 1

\* C10: every stored document lies under the event identifier that is the
\* second segment of the reference the document itself records.
C10_PathMatchesStoredReference ==
  \A p \in DOMAIN db :
    p[2] = Str(SecondSegment(db[p].flutterwaveData.txRef.chars))
====
